---- MODULE Spec2Model ----
(***************************************************************************)
(* A model of the CI framework's tiered quality-gate executor              *)
(* (framework/actions/quality_gates.py) and of its change-impact analysis  *)
(* (framework/actions/change_detection.py).                                *)
(*                                                                         *)
(* One behaviour of Spec is one call of QualityGatesAction.execute_tier;   *)
(* in SpecCleanup another thread calls cleanup() at any moment.  A child   *)
(* process is identified by the check it runs.  The result dictionary of   *)
(* one command is abstracted to its kind:                                  *)
(*   "ok"       returncode 0                                               *)
(*   "fail"     returncode # 0, no zero-tolerance signature in stderr      *)
(*   "crit"     returncode # 0, stderr holds "F821" or "E9"                *)
(*   "timeout"  the dictionary carries "timeout": True                     *)
(*   "error"    the dictionary built by the `except Exception` handler     *)
(***************************************************************************)
EXTENDS Integers, Sequences, FiniteSets, TLC

VARIABLES
    tier,        \* execute_tier argument
    parallel,    \* execute_tier argument
    dry_run,     \* execute_tier argument
    phase,       \* position of the thread that called execute_tier
    wpc,         \* per check: position of the _execute_command that runs it
    nfaults,     \* commands so far whose process did not simply exit with status 0
    unspawned,   \* the checks for which subprocess.Popen raised
    collecting,  \* the caller has begun to store results into command_results
    res,         \* per check: kind of the dictionary _execute_command returned
    order,       \* insertion order of command_results
    registry,    \* self._running_processes
    signalled,   \* processes the current cleanup() call has sent a signal to
    result,      \* the QualityResult under construction / returned
    reports,     \* files written below reports/
    cpc,         \* position of the thread inside cleanup()
    csnap,       \* cleanup's copy self._running_processes[:]
    cidx,        \* index in csnap of the process cleanup() is handling
    ccalls,      \* number of cleanup() calls made so far
    graph,       \* DependencyAnalyzer.dependency_graph: path -> imported_by
    changed,     \* get_affected_modules argument changed_files
    affected,    \* get_affected_modules: affected
    queue,       \* get_affected_modules: queue
    visited,     \* get_affected_modules: visited
    processed,   \* the nodes the loop of get_affected_modules has expanded, in turn
    gpc,         \* position inside get_affected_modules
    project,     \* the project directory: path of a .py file -> its local imports
    source_files,    \* build_dependency_graph argument source_files
    nodes,       \* dependency_graph: path -> imports, test_files, is_test
    affected_tests,  \* get_affected_tests: affected_tests
    apc,         \* position inside the change analysis
    completed,   \* build_dependency_graph: the files whose analysis as_completed
                 \* has yielded, in turn (recorded when the build is run in steps)
    files,       \* classify_files argument files
    classifications, \* classify_files: classifications, category -> list
    warned,      \* the files logged with an 'Unclassified file' warning
    kidx,        \* index in files of the file classify_files is handling
    kpc,         \* position inside classify_files
    enable_test_optimization,    \* OptimizationEngine field
    enable_job_skipping,         \* OptimizationEngine field
    optimization,    \* what calculate_optimization returned
    opc,         \* position inside calculate_optimization
    detection_level, \* ChangeDetectionAction field
    change_result,    \* the ChangeAnalysisResult execute returned
    xpc,         \* position inside ChangeDetectionAction.execute
    manifest,    \* the project's pyproject.toml
    manager,     \* execute_tier: name of the detected PackageManager
    commands,    \* execute_tier: commands
    executed_checks, \* execute_tier: the check names taken from the commands
    mpc,         \* position inside the resolution of the commands
    config,      \* self.config.timeouts of the QualityGatesAction
    results,     \* the QualityResults the execute_tier calls in a row returned
    tree,        \* ProjectMigrator: the files of the project directory
    original_tree,   \* the files of the project directory before migrate()
    backup_tree, \* the files of the backup directory
    backup_dir,  \* ProjectMigrator.backup_dir
    project_analysis,    \* ProjectMigrator.analysis, as far as migrate reads it
    migrate_args,    \* the arguments dry_run and backup of migrate()
    todo,        \* migrate: the steps of the plan that are still to be executed
    migration_status,    \* MigrationResult.status
    rollback_result, \* what rollback() returned
    ppc          \* position of the caller of the ProjectMigrator

qgvars == <<tier, parallel, dry_run, phase, wpc, nfaults, unspawned, collecting,
            res, order, registry, signalled, result, reports, cpc, csnap, cidx,
            ccalls>>

gvars == <<graph, changed, affected, queue, visited, processed, gpc>>

avars == <<project, source_files, nodes, affected_tests, apc, completed>>

kvars == <<files, classifications, warned, kidx, kpc>>

ovars == <<enable_test_optimization, enable_job_skipping, optimization, opc>>

xvars == <<detection_level, change_result, xpc>>

mvars == <<manifest, manager, commands, executed_checks, mpc>>

fvars == <<config, results>>

pvars == <<tree, original_tree, backup_tree, backup_dir, project_analysis,
           migrate_args,
           todo, migration_status, rollback_result, ppc>>

\* the variables the change analysis leaves alone
nonchange == <<qgvars, mvars, fvars, pvars>>

\* the variables the quality-gate actions leave alone
nonqg == <<gvars, avars, kvars, ovars, xvars, mvars, fvars, pvars>>

\* the variables the actions of get_affected_modules leave alone
nongraph == <<nonchange, avars, kvars, ovars, xvars>>

\* the variables the actions of the DependencyAnalyzer leave alone
nonanalyzer == <<nonchange, kvars, ovars, xvars>>

\* the variables the actions of classify_files leave alone
nonclassify == <<nonchange, gvars, avars, ovars, xvars>>

\* the variables the actions of the OptimizationEngine leave alone
nonopt == <<nonchange, gvars, avars, kvars, xvars>>

\* the variables the resolution of the commands leaves alone
noncommands == <<qgvars, gvars, avars, kvars, ovars, xvars, fvars, pvars>>

\* the variables a row of execute_tier calls, taken each as one step, leaves
\* alone
nonconfig == <<qgvars, gvars, avars, kvars, ovars, xvars, mvars, pvars>>

\* the variables the actions of the ProjectMigrator leave alone
nonmigrator == <<qgvars, gvars, avars, kvars, ovars, xvars, mvars, fvars>>

vars == <<qgvars, gvars, avars, kvars, ovars, xvars, mvars, fvars, pvars>>

(***************************************************************************)
(* Bounds of the model.                                                    *)
(***************************************************************************)
\* cleanup() calls made during one behaviour
MaxCleanupCalls == 2
\* commands of one run whose process does not simply exit with status 0
MaxFaults == 2
\* import edges of a dependency graph
MaxEdges == 4
\* local imports of the files of a project directory, all files together
MaxImports == 2
\* files reported as changed to the change analysis
MaxChanged == 2
\* files of a list given to classify_files
MaxFiles == 3
\* files in one category of a classification given to calculate_optimization
MaxPerCategory == 1
\* execute_tier calls made in a row on one QualityGatesAction
MaxCalls == 2

(***************************************************************************)
(* Program constants.                                                      *)
(***************************************************************************)
\* ThreadPoolExecutor(max_workers=min(len(commands), 4))
PoolCap == 4

\* _calculate_optimization_score: total_jobs
TotalJobs == 4

\* QualityConfig.timeouts as __init__ leaves it, for the keys of the model
DefaultTimeouts == [test |-> 120, lint |-> 60]

EssentialChecks == <<"test", "lint", "typecheck">>
ExtendedChecks == <<"test", "lint", "typecheck", "security-scan">>
FullChecks == <<"test", "lint", "typecheck", "security-scan", "check-all">>

Tiers == {"essential", "extended", "full"}

Checks == {FullChecks[i] : i \in 1..Len(FullChecks)}

ReportFiles == <<"junit.xml", "coverage.xml", "security.sarif">>

\* mutant of TierChecks: every tier has the checks of the essential tier
TierChecksEssential(t) == EssentialChecks

\* base_commands.get(tier, base_commands["essential"])
TierChecks(t) ==
    IF t = "extended" THEN ExtendedChecks
    ELSE IF t = "full" THEN FullChecks
    ELSE EssentialChecks

Range(s) == {s[i] : i \in 1..Len(s)}

\* the orders in which a set may be iterated
Orders(S) == {p \in [1..Cardinality(S) -> S] : Range(p) = S}

IndexOf(s, x) == CHOOSE i \in 1..Len(s) : s[i] = x

\* list.remove(x) on a list that holds x
ListRemove(s, x) ==
    LET i == IndexOf(s, x)
    IN  SubSeq(s, 1, i - 1) \o SubSeq(s, i + 1, Len(s))

\* QualityResult(tier=tier, ...) with the dataclass defaults
NewResult(t) ==
    [tier |-> t, success |-> FALSE, executed_checks |-> <<>>,
     failed_checks |-> <<>>, successful_checks |-> <<>>,
     failure_reason |-> "none", failed_fast |-> FALSE,
     partial_success |-> FALSE]

(***************************************************************************)
(* Result aggregation of execute_tier.                                     *)
(***************************************************************************)
\* "F821" in stderr or "E9" in stderr, for a failed command
HasSignature(k) == k = "crit"

\* mutant of ReportsTimeout: the "timeout" key is never found
ReportsTimeoutNever(k) == FALSE

\* cmd_result.get("timeout")
ReportsTimeout(k) == k = "timeout"

\* result.success = len(failed_checks) == 0
SuccessOf(failed) == Len(failed) = 0

\* mutant of PartialOf: the successful checks are not looked at
PartialOfFailedOnly(successful, failed) == Len(failed) > 0

\* result.partial_success = len(successful_checks) > 0 and len(failed_checks) > 0
PartialOf(successful, failed) == Len(successful) > 0 /\ Len(failed) > 0

\* the loop over command_results.items(), with its two breaks
RECURSIVE AggLoop(_, _, _)
AggLoop(ord, r, acc) ==
    IF ord = <<>> THEN acc
    ELSE LET c == Head(ord)
             k == r[c]
         IN  IF k = "ok"
             THEN AggLoop(Tail(ord), r,
                          [acc EXCEPT !.successful_checks = Append(@, c)])
             ELSE LET a1 == [acc EXCEPT !.failed_checks = Append(@, c)]
                  IN  IF HasSignature(k)
                      THEN [a1 EXCEPT !.failure_reason = "critical_lint_violations",
                                      !.failed_fast = TRUE]
                      ELSE IF ReportsTimeout(k)
                           THEN [a1 EXCEPT !.failure_reason = "timeout"]
                           ELSE AggLoop(Tail(ord), r, a1)

\* lines 474-512: the result once the loop has run
Aggregated(rs, ord, r) ==
    LET a == AggLoop(ord, r, [rs EXCEPT !.failed_checks = <<>>,
                                        !.successful_checks = <<>>])
    IN  [a EXCEPT !.success = SuccessOf(a.failed_checks),
                  !.partial_success = PartialOf(a.successful_checks, a.failed_checks)]

\* mutant of ExecutionError: the handler forgets result.success = False
ExecutionErrorKeepsSuccess(rs) == [rs EXCEPT !.failure_reason = "execution_error"]

\* the `except Exception` handler at the top level of execute_tier
ExecutionError(rs) ==
    [rs EXCEPT !.success = FALSE, !.failure_reason = "execution_error"]

(***************************************************************************)
(* execute_tier: entry.                                                    *)
(***************************************************************************)
QGInit ==
    /\ tier \in Tiers
    /\ parallel \in BOOLEAN
    /\ dry_run \in BOOLEAN
    /\ phase = "entry"
    /\ wpc = [c \in Checks |-> "idle"]
    /\ nfaults = 0
    /\ unspawned = {}
    /\ collecting = FALSE
    /\ res = [c \in Checks |-> "none"]
    /\ order = <<>>
    /\ registry = <<>>
    /\ signalled = {}
    /\ result = NewResult("")
    /\ reports = <<>>
    /\ cpc = "idle"
    /\ csnap = <<>>
    /\ cidx = 1
    /\ ccalls = 0
    /\ config = DefaultTimeouts
    /\ results = <<>>

\* no command is run and cleanup() is not called
QGUnused ==
    /\ parallel = FALSE
    /\ dry_run = FALSE
    /\ phase = "none"
    /\ wpc = [c \in Checks |-> "idle"]
    /\ nfaults = 0
    /\ unspawned = {}
    /\ collecting = FALSE
    /\ res = [c \in Checks |-> "none"]
    /\ order = <<>>
    /\ registry = <<>>
    /\ signalled = {}
    /\ result = NewResult("")
    /\ reports = <<>>
    /\ cpc = "idle"
    /\ csnap = <<>>
    /\ cidx = 1
    /\ ccalls = 0
    /\ config = DefaultTimeouts
    /\ results = <<>>

\* no execute_tier call is modelled
QGIdle == tier = "essential" /\ QGUnused

\* no get_affected_modules call is modelled
GraphIdle ==
    /\ graph = <<>>
    /\ changed = {}
    /\ affected = {}
    /\ queue = <<>>
    /\ visited = {}
    /\ processed = <<>>
    /\ gpc = "none"

\* no change analysis is modelled
AnalyzerIdle ==
    /\ project = <<>>
    /\ source_files = {}
    /\ nodes = <<>>
    /\ affected_tests = {}
    /\ apc = "none"
    /\ completed = <<>>

\* the categories of DEFAULT_PATTERNS, in the order of the dictionary
CategoryOrder ==
    <<"docs", "config", "tests", "source", "dependencies", "ci", "build">>

Categories == {CategoryOrder[i] : i \in 1..Len(CategoryOrder)}

\* no classify_files call is modelled
ClassifyIdle ==
    /\ files = <<>>
    /\ classifications = [c \in Categories |-> <<>>]
    /\ warned = <<>>
    /\ kidx = 1
    /\ kpc = "none"

\* no calculate_optimization call is modelled
OptIdle ==
    /\ enable_test_optimization = TRUE
    /\ enable_job_skipping = TRUE
    /\ optimization = <<>>
    /\ opc = "none"

\* no ChangeDetectionAction.execute call is modelled
ExecuteIdle ==
    /\ detection_level = "standard"
    /\ change_result = <<>>
    /\ xpc = "none"

\* the resolution of the commands is not modelled
CommandsIdle ==
    /\ manifest = [exists |-> FALSE, readable |-> FALSE, markers |-> {}]
    /\ manager = "none"
    /\ commands = <<>>
    /\ executed_checks = <<>>
    /\ mpc = "none"

\* the paths of a project directory the ProjectMigrator writes or removes,
\* and a workflow of the project it does not write
MigFiles ==
    {"pyproject.toml", ".pre-commit-config.yaml", ".github/workflows/ci.yml",
     ".github/workflows/release.yml", "pixi.lock"}

\* no ProjectMigrator is modelled
MigratorIdle ==
    /\ tree = [f \in MigFiles |-> "absent"]
    /\ original_tree = [f \in MigFiles |-> "absent"]
    /\ backup_tree = [f \in MigFiles |-> "absent"]
    /\ backup_dir = "none"
    /\ project_analysis = <<>>
    /\ migrate_args = <<>>
    /\ todo = <<>>
    /\ migration_status = "none"
    /\ rollback_result = "none"
    /\ ppc = "none"

\* no call of the change analysis is modelled
ChangeIdle == GraphIdle /\ AnalyzerIdle /\ ClassifyIdle /\ OptIdle /\ ExecuteIdle

Init == QGInit /\ CommandsIdle /\ ChangeIdle /\ MigratorIdle

cvars == <<signalled, cpc, csnap, cidx, ccalls>>

\* mutant of SkipsExecution: dry_run is not looked at
SkipsExecutionNever(dry) == FALSE

\* `if dry_run: result.success = True; return result`
SkipsExecution(dry) == dry

\* lines 425-461; the sequential loop stores each result as it gets it
Enter ==
    /\ phase = "entry"
    /\ IF SkipsExecution(dry_run)
       THEN /\ result' = [NewResult(tier) EXCEPT !.success = TRUE]
            /\ phase' = "returned"
            /\ collecting' = collecting
       ELSE /\ result' = [NewResult(tier) EXCEPT !.executed_checks = TierChecks(tier)]
            /\ phase' = "exec"
            /\ collecting' = ~parallel
    /\ UNCHANGED <<unspawned, tier, parallel, dry_run, wpc, nfaults, res, order, registry,
                   reports, cvars, nonqg>>

(***************************************************************************)
(* Scheduling of the commands of the tier.                                 *)
(***************************************************************************)
TierSet == Range(TierChecks(tier))

Pos(c) == IndexOf(TierChecks(tier), c)

Earlier(c) == {d \in TierSet : Pos(d) < Pos(c)}

Finished(c) == wpc[c] \in {"done", "collected"}

\* mutant of SeqBreaks: the loop has no break
SeqBreaksNever(k) == FALSE

\* _execute_commands_sequential: `if not result["success"] and fail_fast:
\* if "F821" in stderr or "E9" in stderr: break`
SeqBreaks(k) == k # "ok" /\ HasSignature(k)

\* A pool worker takes the tasks in submission order and is busy until its
\* task has returned; the sequential loop runs the next command when the
\* previous one has returned without a break.
CanStart(c) ==
    /\ phase = "exec"
    /\ c \in TierSet
    /\ wpc[c] = "idle"
    /\ IF parallel
       THEN Cardinality({d \in Earlier(c) : ~Finished(d)}) < PoolCap
       ELSE \A d \in Earlier(c) : wpc[d] = "collected" /\ ~SeqBreaks(res[d])

\* how process.communicate can end: exit status 0, another exit status
\* without or with a zero-tolerance signature in stderr, TimeoutExpired,
\* another exception
Outcomes ==
    IF nfaults < MaxFaults THEN {"ok", "fail", "crit", "timeout", "exc"} ELSE {"ok"}

\* the dictionary _execute_command returns: the one of its try body, unless
\* an exception other than TimeoutExpired left the body
ResultKind(o, raised) == IF raised \/ o = "exc" THEN "error" ELSE o

\* _execute_command returns kind k for check c: the sequential loop, and
\* as_completed once it is waiting, store it at once
Return(c, k) ==
    /\ res' = [res EXCEPT ![c] = k]
    /\ IF collecting
       THEN wpc' = [wpc EXCEPT ![c] = "collected"] /\ order' = Append(order, c)
       ELSE wpc' = [wpc EXCEPT ![c] = "done"] /\ order' = order

\* the process of check c ended as o
Ended(c, o, raised) ==
    /\ nfaults' = IF o = "ok" THEN nfaults ELSE nfaults + 1
    /\ Return(c, ResultKind(o, raised))

(***************************************************************************)
(* _execute_command, real execution (lines 255-308).                       *)
(***************************************************************************)
\* subprocess.Popen(...) raises: nothing is registered
SpawnFails(c) ==
    /\ CanStart(c)
    /\ nfaults < MaxFaults
    /\ Ended(c, "fail", TRUE)
    /\ unspawned' = unspawned \cup {c}
    /\ UNCHANGED <<tier, parallel, dry_run, phase, collecting, registry, result,
                   reports, cvars, nonqg>>

\* the registry once `self._running_processes.append(process)` has run
Registered(reg, p) == Append(reg, p)

\* subprocess.Popen(...); self._running_processes.append(process)
Spawn(c) ==
    /\ CanStart(c)
    /\ registry' = Registered(registry, c)
    /\ wpc' = [wpc EXCEPT ![c] = "running"]
    /\ UNCHANGED <<unspawned, tier, parallel, dry_run, phase, nfaults, collecting, res,
                   order, result, reports, cvars, nonqg>>

\* The process ends and process.communicate(timeout=timeout) returns, or it
\* raises TimeoutExpired and the handler kills the process group.  How it
\* ended is read only when the return value is built, and is drawn there.
Communicate(c) ==
    /\ wpc[c] = "running"
    /\ wpc' = [wpc EXCEPT ![c] = "exited"]
    /\ UNCHANGED <<unspawned, tier, parallel, dry_run, phase, nfaults, collecting, res,
                   order, registry, result, reports, cvars, nonqg>>

\* finally: `if process in self._running_processes`
FinallyCheck(c) ==
    /\ wpc[c] = "exited"
    /\ IF c \in Range(registry)
       THEN /\ wpc' = [wpc EXCEPT ![c] = "checked"]
            /\ UNCHANGED <<nfaults, res, order>>
       ELSE \E o \in Outcomes : Ended(c, o, FALSE)
    /\ UNCHANGED <<unspawned, tier, parallel, dry_run, phase, collecting, registry, result,
                   reports, cvars, nonqg>>

\* mutant of Deregistered: the process stays in the list
DeregisteredNot(reg, p) == reg

\* the registry once `self._running_processes.remove(process)` has run
Deregistered(reg, p) == ListRemove(reg, p)

\* finally: `self._running_processes.remove(process)`, which raises
\* ValueError when the process has left the list since the test
FinallyRemove(c) ==
    /\ wpc[c] = "checked"
    /\ IF c \in Range(registry)
       THEN /\ registry' = Deregistered(registry, c)
            /\ \E o \in Outcomes : Ended(c, o, FALSE)
       ELSE /\ registry' = registry
            /\ \E o \in Outcomes : Ended(c, o, TRUE)
    /\ UNCHANGED <<unspawned, tier, parallel, dry_run, phase, collecting, result, reports,
                   cvars, nonqg>>

\* _execute_commands_parallel: `for future in as_completed(future_to_cmd)`
\* first yields the futures that are already finished, in the order of a
\* set, then every other future as it completes
StartCollect ==
    /\ phase = "exec"
    /\ ~collecting
    /\ collecting' = TRUE
    /\ LET done == {c \in TierSet : wpc[c] = "done"}
       IN  /\ \E p \in Orders(done) : order' = p
           /\ wpc' = [c \in Checks |-> IF c \in done THEN "collected" ELSE wpc[c]]
    /\ UNCHANGED <<unspawned, tier, parallel, dry_run, phase, nfaults, res, registry,
                   result, reports, cvars, nonqg>>

(***************************************************************************)
(* execute_tier: aggregation, reports, return (lines 474-530).             *)
(***************************************************************************)
ExecComplete ==
    /\ phase = "exec"
    /\ collecting
    /\ \A c \in TierSet : wpc[c] \in {"idle", "collected"}
    /\ \A c \in TierSet : ~CanStart(c)

\* mutant of WantsReports: the tier is not looked at
WantsReportsAnyTier(rs) == rs.success

\* `if tier == "full" and result.success:`
WantsReports(rs) == rs.tier = "full" /\ rs.success

\* _generate_reports writes its three files in turn; n of them are written
\* before mkdir or write_text raises (n = 3: nothing raises)
Finish ==
    /\ ExecComplete
    /\ LET a == Aggregated(result, order, res)
       IN  IF WantsReports(a)
           THEN \E n \in 0..Len(ReportFiles) :
                   /\ reports' = SubSeq(ReportFiles, 1, n)
                   /\ result' = IF n < Len(ReportFiles) THEN ExecutionError(a) ELSE a
           ELSE /\ reports' = reports
                /\ result' = a
    /\ phase' = "returned"
    /\ UNCHANGED <<unspawned, tier, parallel, dry_run, wpc, nfaults, collecting, res, order,
                   registry, cvars, nonqg>>

(***************************************************************************)
(* cleanup() (lines 532-546), run by another thread.                       *)
(***************************************************************************)
tvars == <<tier, parallel, dry_run, phase, wpc, nfaults, unspawned, collecting,
           res, order, result, reports, nonqg>>

\* `for process in self._running_processes[:]`
CleanupCall ==
    /\ cpc \in {"idle", "done", "raised"}
    /\ ccalls < MaxCleanupCalls
    /\ ccalls' = ccalls + 1
    /\ csnap' = registry
    /\ cidx' = 1
    /\ signalled' = {}
    /\ cpc' = IF registry = <<>> THEN "done" ELSE "signal"
    /\ UNCHANGED <<tvars, registry>>

\* process.poll() is None
StillRunning(p) == wpc[p] = "running"

\* mutant of AfterSignal: no signal is sent
AfterSignalNone(sig, p, running) == sig

\* the processes signalled once cleanup has handled p: SIGTERM to the group
\* of a process that is still running, SIGKILL when that raises
AfterSignal(sig, p, running) == IF running THEN sig \cup {p} ELSE sig

\* try: poll, killpg(SIGTERM), wait / except: killpg(SIGKILL) / except: pass
CleanupSignal ==
    /\ cpc = "signal"
    /\ signalled' = AfterSignal(signalled, csnap[cidx], StillRunning(csnap[cidx]))
    /\ cpc' = "member"
    /\ UNCHANGED <<tvars, registry, csnap, cidx, ccalls>>

\* the loop goes on with the next process of the copy, or cleanup returns
NextProcess ==
    /\ cidx' = cidx + 1
    /\ cpc' = IF cidx = Len(csnap) THEN "done" ELSE "signal"

\* finally: `if process in self._running_processes`
CleanupCheck ==
    /\ cpc = "member"
    /\ IF csnap[cidx] \in Range(registry)
       THEN cpc' = "remove" /\ cidx' = cidx
       ELSE NextProcess
    /\ UNCHANGED <<tvars, registry, signalled, csnap, ccalls>>

\* finally: `self._running_processes.remove(process)`; a ValueError leaves
\* cleanup() through the finally block
CleanupRemove ==
    /\ cpc = "remove"
    /\ IF csnap[cidx] \in Range(registry)
       THEN /\ registry' = Deregistered(registry, csnap[cidx])
            /\ NextProcess
       ELSE /\ registry' = registry
            /\ cpc' = "raised"
            /\ cidx' = cidx
    /\ UNCHANGED <<tvars, signalled, csnap, ccalls>>

(***************************************************************************)
(* Spec: one call of execute_tier, any tier, either mode.                  *)
(* SpecCleanup: one call of execute_tier with cleanup() called from        *)
(* another thread at any moment, before, during and after the call.        *)
(***************************************************************************)
Next ==
    \/ Enter
    \/ \E c \in Checks : SpawnFails(c)
    \/ \E c \in Checks : Spawn(c)
    \/ \E c \in Checks : Communicate(c)
    \/ \E c \in Checks : FinallyCheck(c)
    \/ \E c \in Checks : FinallyRemove(c)
    \/ StartCollect
    \/ Finish

Spec == Init /\ [][Next]_vars

\* the tiers run with a concurrent cleanup thread
CleanupTiers == {"essential"}

InitCleanup == Init /\ tier \in CleanupTiers

NextCleanup ==
    \/ Next
    \/ CleanupCall
    \/ CleanupSignal
    \/ CleanupCheck
    \/ CleanupRemove

SpecCleanup == InitCleanup /\ [][NextCleanup]_vars

(***************************************************************************)
(* DependencyAnalyzer.get_affected_modules (change_detection.py, lines     *)
(* 197-223) on a dependency graph.  The graph is held as the function that *)
(* maps the path of each node to the node's imported_by set.               *)
(* changed_files is only tested for membership, and is held as a set.      *)
(* SpecGraph: one call on any graph over GraphFiles with at most MaxEdges  *)
(* import edges, for any changed_files of at most MaxChanged paths.        *)
(***************************************************************************)
\* the files a graph may have as nodes
GraphFiles == {"src/a.py", "src/b.py", "src/c.py", "tests/test_b.py"}

\* the files that may be reported as changed: the last one is in no graph
ChangedFiles == GraphFiles \cup {"README.md"}

EdgeCount(g) == Cardinality({e \in (DOMAIN g) \X (DOMAIN g) : e[2] \in g[e[1]]})

\* imported_by only ever receives keys of dependency_graph
\* (_build_reverse_dependencies)
Graphs ==
    UNION {{g \in [ns -> SUBSET ns] : EdgeCount(g) <= MaxEdges} : ns \in SUBSET GraphFiles}

GraphInit ==
    /\ graph \in Graphs
    /\ changed \in {c \in SUBSET ChangedFiles : Cardinality(c) <= MaxChanged}
    /\ affected = {}
    /\ queue = <<>>
    /\ visited = {}
    /\ processed = <<>>
    /\ gpc = "entry"

InitGraph ==
    /\ QGIdle /\ CommandsIdle /\ MigratorIdle
    /\ GraphInit /\ AnalyzerIdle /\ ClassifyIdle /\ OptIdle /\ ExecuteIdle

\* `for file in changed_files: if file in self.dependency_graph:
\* affected.add(file)`
DirectChanges(g, ch) == {f \in ch : f \in DOMAIN g}

\* lines 199-208
Seed ==
    /\ gpc = "entry"
    /\ affected' = DirectChanges(graph, changed)
    /\ \E q \in Orders(DirectChanges(graph, changed)) : queue' = q
    /\ visited' = {}
    /\ gpc' = "loop"
    /\ UNCHANGED <<graph, changed, processed, nongraph>>

\* mutant of NewDependents: only the importers of the changed files are added
NewDependentsOfChangedOnly(g, cur, aff) ==
    IF cur \in DOMAIN g /\ cur \in changed THEN g[cur] \ aff ELSE {}

\* `if current in self.dependency_graph: for dependent in
\* self.dependency_graph[current].imported_by: if dependent not in affected`
NewDependents(g, cur, aff) == IF cur \in DOMAIN g THEN g[cur] \ aff ELSE {}

\* mutant of Enqueued: the dependents found are not put on the queue
EnqueuedNothing(q, deps) == q

\* `queue.append(dependent)` for each new dependent, in the order deps
Enqueued(q, deps) == q \o deps

\* one turn of `while queue:` (lines 210-221)
Visit ==
    /\ gpc = "loop"
    /\ queue # <<>>
    /\ LET current == Head(queue)
       IN  IF current \in visited
           THEN /\ queue' = Tail(queue)
                /\ UNCHANGED <<affected, visited, processed>>
           ELSE /\ visited' = visited \cup {current}
                /\ processed' = Append(processed, current)
                /\ affected' = affected \cup NewDependents(graph, current, affected)
                /\ \E q \in Orders(NewDependents(graph, current, affected)) :
                      queue' = Enqueued(Tail(queue), q)
    /\ UNCHANGED <<graph, changed, gpc, nongraph>>

\* `return affected`
ReturnAffected ==
    /\ gpc = "loop"
    /\ queue = <<>>
    /\ gpc' = "done"
    /\ UNCHANGED <<graph, changed, affected, queue, visited, processed, nongraph>>

NextGraph ==
    \/ Seed
    \/ Visit
    \/ ReturnAffected

SpecGraph == InitGraph /\ [][NextGraph]_vars

\* the call runs on one thread, which goes on as long as it has a step to take
SpecGraphFair == SpecGraph /\ WF_vars(NextGraph)

(***************************************************************************)
(* DependencyAnalyzer.build_dependency_graph and get_affected_tests        *)
(* (change_detection.py, lines 161-195 and 225-247) on a project           *)
(* directory.  A file is a path; what the code computes from the text of   *)
(* a path is tabulated for the paths of the model.  An import is the       *)
(* dotted name the import statement gives.                                 *)
(* SpecTests: build_dependency_graph(source_files) on a new analyzer,      *)
(* then get_affected_tests(changed), for any project over DiskFiles with   *)
(* at most MaxImports local imports, any source_files and any changed set  *)
(* of at most MaxChanged paths.                                            *)
(***************************************************************************)
\* the .py files of the project directory
DiskFiles == {"src/a.py", "src/b.py", "tests/test_b.py", "tests/check_a.py"}

\* the paths a caller may pass: the second to last is a file that is not
\* in the project directory (a deleted file), the last one is no .py file
Paths == DiskFiles \cup {"src/gone.py", "README.md"}

\* the dotted names the import statements of the project use; each is local
\* to the project (_is_local_import finds src/a.py and src/b.py)
ImportNames == {"src.a", "src.b"}

\* file.endswith('.py')
IsPython(f) == f # "README.md"

\* file_path.replace('/', '.').replace('.py', '')
ModuleName(f) ==
    CASE f = "src/a.py" -> "src.a"
      [] f = "src/b.py" -> "src.b"
      [] f = "src/gone.py" -> "src.gone"
      [] f = "tests/test_b.py" -> "tests.test_b"
      [] f = "tests/check_a.py" -> "tests.check_a"
      [] OTHER -> "README.md"

\* _import_matches_file: the import names the module or something below
\* it; no name of ImportNames starts with the module name of a path of the
\* model followed by a dot
ImportMatchesFile(import_name, f) == import_name = ModuleName(f)

\* _is_test_file: the name starts with test_ or the path holds 'tests/'
IsTestFile(f) == f \in {"tests/test_b.py", "tests/check_a.py"}

\* Path(file).stem
Stem(f) ==
    CASE f = "src/a.py" -> "a"
      [] f = "src/b.py" -> "b"
      [] f = "src/gone.py" -> "gone"
      [] f = "tests/test_b.py" -> "test_b"
      [] f = "tests/check_a.py" -> "check_a"
      [] OTHER -> "README"

\* _test_matches_module: the test_ prefix, or the _test or _tests suffix,
\* is taken off the stem of the test file
StripTest(stem) == IF stem = "test_b" THEN "b" ELSE stem

TestMatchesModule(t, m) == StripTest(Stem(t)) = Stem(m)

ImportCount(p) ==
    Cardinality({e \in (DOMAIN p) \X ImportNames : e[2] \in p[e[1]]})

\* what _analyze_file_dependencies returns for the files that exist
Projects == {p \in [DiskFiles -> SUBSET ImportNames] : ImportCount(p) <= MaxImports}

ChangedSets == {c \in SUBSET Paths : Cardinality(c) <= MaxChanged}

TestsInit ==
    /\ project \in Projects
    /\ source_files \in SUBSET Paths
    /\ changed \in ChangedSets
    /\ graph = <<>>
    /\ nodes = <<>>
    /\ affected = {}
    /\ queue = <<>>
    /\ visited = {}
    /\ processed = <<>>
    /\ gpc = "none"
    /\ affected_tests = {}
    /\ apc = "build"
    /\ completed = <<>>

InitTests ==
    /\ QGIdle /\ CommandsIdle /\ MigratorIdle
    /\ TestsInit /\ ClassifyIdle /\ OptIdle /\ ExecuteIdle

\* the files build_dependency_graph makes a node for: the .py files of
\* source_files for which _analyze_file_dependencies does not return None
Analyzed(srcs, proj) == {f \in srcs : IsPython(f) /\ f \in DOMAIN proj}

\* the node dictionary once the loop over the futures has run: a new node
\* for every analyzed file, the nodes of other files as they were
WithNewNodes(ns, srcs, proj) ==
    [f \in (DOMAIN ns) \cup Analyzed(srcs, proj) |->
        IF f \in Analyzed(srcs, proj)
        THEN [imports |-> proj[f], test_files |-> {}, is_test |-> IsTestFile(f)]
        ELSE ns[f]]

\* the imported_by sets once the loop has run: empty for a new node
WithNewImportedBy(g, srcs, proj) ==
    [f \in (DOMAIN g) \cup Analyzed(srcs, proj) |->
        IF f \in Analyzed(srcs, proj) THEN {} ELSE g[f]]

\* _build_reverse_dependencies
ReverseDependencies(g, ns) ==
    [o \in DOMAIN g |->
        g[o] \cup {f \in DOMAIN ns :
                     \E imported_module \in ns[f].imports :
                        ImportMatchesFile(imported_module, o)}]

\* _associate_test_files: `module_file in test_node.imports`
TestImportsModule(module_file, imports) == module_file \in imports

\* _associate_test_files
AssociateTestFiles(ns) ==
    [m \in DOMAIN ns |->
        IF ns[m].is_test THEN ns[m]
        ELSE [ns[m] EXCEPT !.test_files =
                 @ \cup {t \in DOMAIN ns :
                           /\ ns[t].is_test
                           /\ \/ TestImportsModule(m, ns[t].imports)
                              \/ TestMatchesModule(t, m)}]]

\* build_dependency_graph(source_files)
BuildGraph ==
    /\ apc = "build"
    /\ LET ns == WithNewNodes(nodes, source_files, project)
           g == WithNewImportedBy(graph, source_files, project)
       IN  /\ graph' = ReverseDependencies(g, ns)
           /\ nodes' = AssociateTestFiles(ns)
    /\ apc' = "modules"
    /\ gpc' = "entry"
    /\ UNCHANGED <<changed, affected, queue, visited, processed, project,
                   source_files, affected_tests, completed, nonanalyzer>>

\* get_affected_tests: `node.imports.intersection(affected_modules)`
ImportsAffected(imports, affected_modules) == imports \cap affected_modules # {}

\* get_affected_tests, once its get_affected_modules call has returned
AffectedTests(ch, affected_modules, ns) ==
    {f \in ch : IsTestFile(f)}
    \cup UNION {ns[m].test_files : m \in affected_modules \cap DOMAIN ns}
    \cup {t \in DOMAIN ns : ns[t].is_test /\ ImportsAffected(ns[t].imports, affected_modules)}

\* lines 229-247
CollectTests ==
    /\ apc = "modules"
    /\ gpc = "done"
    /\ affected_tests' = AffectedTests(changed, affected, nodes)
    /\ apc' = "done"
    /\ UNCHANGED <<gvars, project, source_files, nodes, completed, nonanalyzer>>

NextTests ==
    \/ BuildGraph
    \/ Seed
    \/ Visit
    \/ ReturnAffected
    \/ CollectTests

SpecTests == InitTests /\ [][NextTests]_vars

(***************************************************************************)
(* SpecRebuild: build_dependency_graph called any number of times on one   *)
(* DependencyAnalyzer, each time with any source_files, for any project    *)
(* over DiskFiles with at most MaxImports local imports.  The files of the *)
(* project stay as they are between the calls.                             *)
(***************************************************************************)
RebuildInit ==
    /\ project \in Projects
    /\ source_files \in SUBSET Paths
    /\ changed = {}
    /\ graph = <<>>
    /\ nodes = <<>>
    /\ affected = {}
    /\ queue = <<>>
    /\ visited = {}
    /\ processed = <<>>
    /\ gpc = "none"
    /\ affected_tests = {}
    /\ apc = "build"
    /\ completed = <<>>

InitRebuild ==
    /\ QGIdle /\ CommandsIdle /\ MigratorIdle
    /\ RebuildInit /\ ClassifyIdle /\ OptIdle /\ ExecuteIdle

\* the caller has the graph of the last call and calls build_dependency_graph
\* on the same analyzer once more, with srcs
BuildAgain(srcs) ==
    /\ apc = "modules"
    /\ source_files' = srcs
    /\ apc' = "build"
    /\ UNCHANGED <<gvars, project, nodes, affected_tests, completed, nonanalyzer>>

NextRebuild ==
    \/ BuildGraph
    \/ \E srcs \in SUBSET Paths : BuildAgain(srcs)

SpecRebuild == InitRebuild /\ [][NextRebuild]_vars

(***************************************************************************)
(* SpecBuild: one build_dependency_graph call on a new analyzer, run in    *)
(* steps: the analyses of the files are submitted to the pool, as_completed*)
(* yields them in any order and the caller makes a node of each, then the  *)
(* two passes over the nodes are run.  For any project over DiskFiles with *)
(* at most MaxImports local imports and any source_files.                  *)
(***************************************************************************)
BuildInit ==
    /\ project \in Projects
    /\ source_files \in SUBSET Paths
    /\ changed = {}
    /\ graph = <<>>
    /\ nodes = <<>>
    /\ affected = {}
    /\ queue = <<>>
    /\ visited = {}
    /\ processed = <<>>
    /\ gpc = "none"
    /\ affected_tests = {}
    /\ apc = "submit"
    /\ completed = <<>>

InitBuild ==
    /\ QGIdle /\ CommandsIdle /\ MigratorIdle
    /\ BuildInit /\ ClassifyIdle /\ OptIdle /\ ExecuteIdle

\* the files of which an analysis is submitted:
\* `for file in source_files if file.endswith('.py')`
Submitted(srcs) == {f \in srcs : IsPython(f)}

\* the submitted analyses as_completed has not yielded so far
Pending == Submitted(source_files) \ Range(completed)

\* future_to_file = {executor.submit(...): file for ...}
Submit ==
    /\ apc = "submit"
    /\ apc' = "analyzing"
    /\ UNCHANGED <<gvars, project, source_files, nodes, affected_tests, completed,
                   nonanalyzer>>

\* one turn of `for future in as_completed(future_to_file)`: the analysis of
\* f is yielded, and f gets a new node unless the analysis returned None
Completed(f) ==
    /\ apc = "analyzing"
    /\ f \in Pending
    /\ completed' = Append(completed, f)
    /\ nodes' = WithNewNodes(nodes, {f}, project)
    /\ graph' = WithNewImportedBy(graph, {f}, project)
    /\ UNCHANGED <<changed, affected, queue, visited, processed, gpc, project,
                   source_files, affected_tests, apc, nonanalyzer>>

\* mutant of AllYielded: the caller does not wait for the analyses
AllYieldedAtOnce(pending) == TRUE

\* the loop over as_completed is over and the `with` block of the pool is
\* left when every submitted analysis has been yielded
AllYielded(pending) == pending = {}

\* self._build_reverse_dependencies(); self._associate_test_files();
\* return self.dependency_graph
RunPasses ==
    /\ apc = "analyzing"
    /\ AllYielded(Pending)
    /\ graph' = ReverseDependencies(graph, nodes)
    /\ nodes' = AssociateTestFiles(nodes)
    /\ apc' = "modules"
    /\ UNCHANGED <<changed, affected, queue, visited, processed, gpc, project,
                   source_files, affected_tests, completed, nonanalyzer>>

NextBuild ==
    \/ Submit
    \/ \E f \in Paths : Completed(f)
    \/ RunPasses

SpecBuild == InitBuild /\ [][NextBuild]_vars

(***************************************************************************)
(* FilePatternMatcher.classify_files (change_detection.py, lines 77-104)   *)
(* with the default patterns.  Which patterns match a path, and the        *)
(* suffix of a path, are tabulated for the paths of the model.             *)
(* SpecClassify: one call on any list of at most MaxFiles paths of         *)
(* ClassFiles, a path possibly more than once.                             *)
(***************************************************************************)
\* the paths a list of files may hold
ClassFiles ==
    Paths \cup {"pyproject.toml", "requirements.txt", "package.json", "Pipfile",
                "poetry.lock", "Makefile", "main.go", "x.bin"}

\* the categories of which some pattern matches the file (_matches_pattern
\* over DEFAULT_PATTERNS)
MatchingCategories(f) ==
    CASE f \in {"src/a.py", "src/b.py", "src/gone.py"} -> {"source"}
      [] f \in {"tests/test_b.py", "tests/check_a.py"} -> {"tests", "source"}
      [] f = "README.md" -> {"docs"}
      [] f \in {"pyproject.toml", "package.json"} -> {"config", "dependencies"}
      [] f = "requirements.txt" -> {"docs", "dependencies"}
      [] f \in {"Pipfile", "poetry.lock"} -> {"dependencies"}
      [] f = "Makefile" -> {"build"}
      [] OTHER -> {}

\* _infer_from_extension: extension_map.get(Path(file).suffix.lower())
InferFromExtension(f) ==
    CASE f \in {"src/a.py", "src/b.py", "src/gone.py", "tests/test_b.py",
                "tests/check_a.py", "main.go"} -> "source"
      [] f \in {"README.md", "requirements.txt"} -> "docs"
      [] f \in {"pyproject.toml", "package.json"} -> "config"
      [] OTHER -> "none"

\* the first category, in the order of self.patterns, of which a pattern
\* matches the file
FirstMatch(f) ==
    LET hits == {i \in 1..Len(CategoryOrder) : CategoryOrder[i] \in MatchingCategories(f)}
    IN  IF hits = {} THEN "none"
        ELSE CategoryOrder[CHOOSE i \in hits : \A j \in hits : i <= j]

\* mutant of PatternCategories: the loop over the categories is not left at
\* the first match
PatternCategoriesAll(f) == MatchingCategories(f)

\* the categories the loop over self.patterns appends the file to: it is
\* left at the first match
PatternCategories(f) == IF FirstMatch(f) = "none" THEN {} ELSE {FirstMatch(f)}

\* sequences of at most n elements of S
SeqUpTo(S, n) == UNION {[1..k -> S] : k \in 0..n}

ClassifyInit ==
    /\ files \in SeqUpTo(ClassFiles, MaxFiles)
    /\ classifications = [c \in Categories |-> <<>>]
    /\ warned = <<>>
    /\ kidx = 1
    /\ kpc = "loop"

InitClassify ==
    /\ QGIdle /\ CommandsIdle /\ MigratorIdle
    /\ GraphIdle /\ AnalyzerIdle /\ ClassifyInit /\ OptIdle /\ ExecuteIdle

\* one turn of `for file in files:` (lines 82-102)
ClassifyFile ==
    /\ kpc = "loop"
    /\ kidx <= Len(files)
    /\ LET file == files[kidx]
           cats == IF PatternCategories(file) # {} THEN PatternCategories(file)
                   ELSE IF InferFromExtension(file) # "none"
                        THEN {InferFromExtension(file)}
                        ELSE {}
       IN  /\ classifications' =
                 [c \in Categories |->
                     IF c \in cats THEN Append(classifications[c], file)
                     ELSE classifications[c]]
           /\ warned' = IF cats = {} THEN Append(warned, file) ELSE warned
    /\ kidx' = kidx + 1
    /\ UNCHANGED <<files, kpc, nonclassify>>

\* `return classifications`
ClassifyReturn ==
    /\ kpc = "loop"
    /\ kidx > Len(files)
    /\ kpc' = "done"
    /\ UNCHANGED <<files, classifications, warned, kidx, nonclassify>>

NextClassify ==
    \/ ClassifyFile
    \/ ClassifyReturn

SpecClassify == InitClassify /\ [][NextClassify]_vars

(***************************************************************************)
(* OptimizationEngine.calculate_optimization (change_detection.py, lines   *)
(* 556-693).  It reads only the lengths of the lists of a classification.  *)
(* The reasoning texts and the time savings of the result are left out.    *)
(* SpecOpt: one call on any classification with at most MaxPerCategory     *)
(* files in each category, for every setting of the two engine flags.      *)
(***************************************************************************)
OptClassifications == [Categories -> SeqUpTo({"src/a.py"}, MaxPerCategory)]

OptInit ==
    /\ classifications \in OptClassifications
    /\ files = <<>>
    /\ warned = <<>>
    /\ kidx = 1
    /\ kpc = "none"
    /\ enable_test_optimization \in BOOLEAN
    /\ enable_job_skipping \in BOOLEAN
    /\ optimization = <<>>
    /\ opc = "entry"

InitOpt ==
    /\ QGIdle /\ CommandsIdle /\ MigratorIdle
    /\ GraphIdle /\ AnalyzerIdle /\ OptInit /\ ExecuteIdle

\* sum(len(files) for files in classifications.values())
RECURSIVE SumLen(_, _)
SumLen(cls, cats) ==
    IF cats = <<>> THEN 0 ELSE Len(cls[Head(cats)]) + SumLen(cls, Tail(cats))

TotalFiles(cls) == SumLen(cls, CategoryOrder)

\* len(classifications.get(category, [])) > 0
Has(cls, category) == Len(cls[category]) > 0

\* mutant of DocsOnly: a build change does not count
DocsOnlyIgnoringBuild(cls) ==
    /\ Has(cls, "docs")
    /\ ~(Has(cls, "source") \/ Has(cls, "tests") \/ Has(cls, "dependencies"))

\* docs_only = has_docs and not any([has_source, has_tests,
\* has_dependencies, has_build])
DocsOnly(cls) ==
    /\ Has(cls, "docs")
    /\ ~(Has(cls, "source") \/ Has(cls, "tests") \/ Has(cls, "dependencies")
         \/ Has(cls, "build"))

\* _analyze_change_patterns, the entries _calculate_skip_recommendations reads
AnalyzeChangePatterns(cls) ==
    [has_source |-> Has(cls, "source"),
     has_tests |-> Has(cls, "tests"),
     has_docs |-> Has(cls, "docs"),
     has_config |-> Has(cls, "config"),
     has_dependencies |-> Has(cls, "dependencies"),
     docs_only |-> DocsOnly(cls)]

\* mutant of SkipRecommendations: the documentation job is skipped whether
\* or not documentation changed
SkipRecommendationsDocsAlways(analysis, test_opt, job_skip) ==
    [tests |-> /\ ~analysis.has_source
               /\ ~analysis.has_tests
               /\ ~analysis.has_dependencies
               /\ test_opt,
     security |-> /\ \/ analysis.docs_only
                     \/ /\ analysis.has_config
                        /\ ~analysis.has_dependencies
                        /\ ~analysis.has_source
                  /\ job_skip,
     docs |-> job_skip,
     lint |-> analysis.docs_only /\ job_skip]

\* _calculate_skip_recommendations
SkipRecommendations(analysis, test_opt, job_skip) ==
    [tests |-> /\ ~analysis.has_source
               /\ ~analysis.has_tests
               /\ ~analysis.has_dependencies
               /\ test_opt,
     security |-> /\ \/ analysis.docs_only
                     \/ /\ analysis.has_config
                        /\ ~analysis.has_dependencies
                        /\ ~analysis.has_source
                  /\ job_skip,
     docs |-> ~analysis.has_docs /\ job_skip,
     lint |-> analysis.docs_only /\ job_skip]

\* sum([...]) of the four recommendations
SkippedJobs(skip) ==
    (IF skip.tests THEN 1 ELSE 0) + (IF skip.security THEN 1 ELSE 0)
    + (IF skip.docs THEN 1 ELSE 0) + (IF skip.lint THEN 1 ELSE 0)

\* mutant of OptimizationScore: the build job is counted as a fifth job
OptimizationScoreOfFive(skip) == (SkippedJobs(skip) * 100) \div (TotalJobs + 1)

\* int((skipped_jobs / total_jobs) * 100): a quarter is an exact float and
\* so is its product with 100
OptimizationScore(skip) == (SkippedJobs(skip) * 100) \div TotalJobs

\* _empty_optimization_result
EmptyOptimizationResult ==
    [skip_tests |-> FALSE, skip_security |-> FALSE, skip_docs |-> FALSE,
     skip_lint |-> FALSE, optimization_score |-> 0]

\* calculate_optimization
CalculateOptimization(cls, test_opt, job_skip) ==
    IF TotalFiles(cls) = 0 THEN EmptyOptimizationResult
    ELSE LET skip == SkipRecommendations(AnalyzeChangePatterns(cls), test_opt, job_skip)
         IN  [skip_tests |-> skip.tests, skip_security |-> skip.security,
              skip_docs |-> skip.docs, skip_lint |-> skip.lint,
              optimization_score |-> OptimizationScore(skip)]

\* a call of calculate_optimization
Optimize ==
    /\ opc = "entry"
    /\ optimization' = CalculateOptimization(classifications,
                           enable_test_optimization, enable_job_skipping)
    /\ opc' = "done"
    /\ UNCHANGED <<enable_test_optimization, enable_job_skipping, nonopt>>

NextOpt == Optimize

SpecOpt == InitOpt /\ [][NextOpt]_vars

(***************************************************************************)
(* SpecDecide: classify_files on a list of changed files, with the default *)
(* patterns, and calculate_optimization on the classification it returns,  *)
(* as ChangeDetectionAction.execute chains them (lines 918 and 941).  For  *)
(* any list of at most MaxFiles paths of ClassFiles and every setting of   *)
(* the two engine flags.                                                   *)
(***************************************************************************)
DecideInit ==
    /\ ClassifyInit
    /\ enable_test_optimization \in BOOLEAN
    /\ enable_job_skipping \in BOOLEAN
    /\ optimization = <<>>
    /\ opc = "none"

InitDecide ==
    /\ QGIdle /\ CommandsIdle /\ MigratorIdle
    /\ GraphIdle /\ AnalyzerIdle /\ DecideInit /\ ExecuteIdle

\* classify_files has returned and its result is given to
\* calculate_optimization
PassClassifications ==
    /\ kpc = "done"
    /\ opc = "none"
    /\ opc' = "entry"
    /\ UNCHANGED <<enable_test_optimization, enable_job_skipping, optimization,
                   nonopt>>

NextDecide ==
    \/ ClassifyFile
    \/ ClassifyReturn
    \/ PassClassifications
    \/ Optimize

SpecDecide == InitDecide /\ [][NextDecide]_vars

(***************************************************************************)
(* ChangeDetectionAction.execute (change_detection.py, lines 901-998),     *)
(* without monorepo mode.  The changed files are those `git diff           *)
(* --name-only` lists, each path once.                                     *)
(* SpecExecute: one call on a new action, for any project over DiskFiles   *)
(* with at most MaxImports local imports, any set of at most MaxChanged    *)
(* changed paths and every detection level.                                *)
(***************************************************************************)
DetectionLevels == {"quick", "standard", "comprehensive"}

ExecuteInit ==
    /\ detection_level \in DetectionLevels
    /\ project \in Projects
    /\ changed \in ChangedSets
    /\ files \in Orders(changed)
    /\ graph = <<>>
    /\ affected = {}
    /\ queue = <<>>
    /\ visited = {}
    /\ processed = <<>>
    /\ gpc = "none"
    /\ classifications = [c \in Categories |-> <<>>]
    /\ warned = <<>>
    /\ kidx = 1
    /\ kpc = "none"
    /\ source_files = {}
    /\ nodes = <<>>
    /\ affected_tests = {}
    /\ apc = "none"
    /\ completed = <<>>
    /\ change_result = <<>>
    /\ xpc = "entry"

InitExecute == QGIdle /\ CommandsIdle /\ MigratorIdle /\ OptIdle /\ ExecuteInit

\* the ChangeAnalysisResult of a call that succeeds
AnalysisResult(tests, impact, opt) ==
    [success |-> TRUE, affected_tests |-> tests, dependency_impact |-> impact,
     skip_tests |-> opt.skip_tests, skip_security |-> opt.skip_security,
     skip_docs |-> opt.skip_docs, skip_lint |-> opt.skip_lint,
     optimization_score |-> opt.optimization_score]

\* _create_empty_result
EmptyAnalysisResult == AnalysisResult({}, 0, EmptyOptimizationResult)

\* the ChangeAnalysisResult the `except Exception` handler returns
FailedAnalysisResult ==
    [EmptyAnalysisResult EXCEPT !.success = FALSE]

\* lines 905-917: no changed file ends the call, else the files are classified
ExecuteStart ==
    /\ xpc = "entry"
    /\ IF files = <<>>
       THEN /\ change_result' = EmptyAnalysisResult
            /\ xpc' = "done"
            /\ kpc' = kpc
       ELSE /\ change_result' = change_result
            /\ xpc' = "classify"
            /\ kpc' = "loop"
    /\ UNCHANGED <<detection_level, files, classifications, warned, kidx,
                   nonchange, gvars, avars, ovars>>

\* `if self.detection_level in ["standard", "comprehensive"]`
AnalyzesDependencies(level) == level \in {"standard", "comprehensive"}

\* source_files = classifications.get("source", [])
GraphSources(cls, proj) == Range(cls["source"])

\* lines 919-931: classify_files has returned; the graph is built when the
\* level asks for it and a changed file is classified as source
ExecuteAnalyze ==
    /\ xpc = "classify"
    /\ kpc = "done"
    /\ IF AnalyzesDependencies(detection_level)
          /\ GraphSources(classifications, project) # {}
       THEN /\ source_files' = GraphSources(classifications, project)
            /\ apc' = "build"
            /\ xpc' = "analyze"
            /\ opc' = opc
       ELSE /\ source_files' = source_files
            /\ apc' = apc
            /\ xpc' = "optimize"
            /\ opc' = "entry"
    /\ UNCHANGED <<detection_level, change_result, project, nodes, affected_tests,
                   completed, enable_test_optimization, enable_job_skipping, optimization,
                   nonchange, gvars, kvars>>

\* lines 929-942: get_affected_tests has returned; get_affected_modules is
\* called again on the same graph and returns the same set
ExecuteOptimize ==
    /\ xpc = "analyze"
    /\ apc = "done"
    /\ xpc' = "optimize"
    /\ opc' = "entry"
    /\ UNCHANGED <<detection_level, change_result, enable_test_optimization,
                   enable_job_skipping, optimization, nonchange, gvars, avars, kvars>>

\* lines 944-996: the result is created and the reports are written, or
\* writing them raises
ExecuteReturn ==
    /\ xpc = "optimize"
    /\ opc = "done"
    /\ \E written \in BOOLEAN :
          change_result' = IF written
                      THEN AnalysisResult(affected_tests, Cardinality(affected),
                                          optimization)
                      ELSE FailedAnalysisResult
    /\ xpc' = "done"
    /\ UNCHANGED <<detection_level, nonchange, gvars, avars, kvars, ovars>>

NextExecute ==
    \/ ExecuteStart
    \/ ClassifyFile
    \/ ClassifyReturn
    \/ ExecuteAnalyze
    \/ BuildGraph
    \/ Seed
    \/ Visit
    \/ ReturnAffected
    \/ CollectTests
    \/ ExecuteOptimize
    \/ Optimize
    \/ ExecuteReturn

SpecExecute == InitExecute /\ [][NextExecute]_vars

(***************************************************************************)
(* How execute_tier resolves the commands of a tier (quality_gates.py,     *)
(* lines 82-126, 194-212 and 445-456): detect_package_manager,             *)
(* _get_tier_commands, and the check names it takes back from the          *)
(* commands.  A command is the list of its words.  The content of          *)
(* pyproject.toml is the set of the markers it holds.                      *)
(* SpecCommands: for every manifest and every tier name, one unknown.      *)
(***************************************************************************)
\* the substrings detect_package_manager looks for in pyproject.toml
Markers == {"[tool.pixi", "[tool.poetry]", "[tool.hatch"}

\* the section headers a pyproject.toml of the model may hold: the markers
\* and a header detect_package_manager does not look for
Headers == Markers \cup {"[tool.black]"}

\* pyproject.toml: missing, not readable (read_text raises), or holding some
\* of the headers
Manifests ==
    {[exists |-> FALSE, readable |-> FALSE, markers |-> {}],
     [exists |-> TRUE, readable |-> FALSE, markers |-> {}]}
    \cup {[exists |-> TRUE, readable |-> TRUE, markers |-> ms] : ms \in SUBSET Headers}

\* the tier names a caller may pass: the last one is no tier
TierNames == Tiers \cup {"nightly"}

CommandsInit ==
    /\ tier \in TierNames
    /\ manifest \in Manifests
    /\ manager = "none"
    /\ commands = <<>>
    /\ executed_checks = <<>>
    /\ mpc = "entry"

InitCommands == QGUnused /\ CommandsInit /\ ChangeIdle /\ MigratorIdle

\* mutant of DetectPackageManager: the poetry marker is looked for first
DetectPackageManagerPoetryFirst(m) ==
    IF m.exists /\ m.readable
    THEN IF "[tool.poetry]" \in m.markers THEN "poetry"
         ELSE IF "[tool.pixi" \in m.markers THEN "pixi"
         ELSE IF "[tool.hatch" \in m.markers THEN "hatch"
         ELSE "pip"
    ELSE "pip"

\* detect_package_manager: the name of the PackageManager it returns
DetectPackageManager(m) ==
    IF m.exists /\ m.readable
    THEN IF "[tool.pixi" \in m.markers THEN "pixi"
         ELSE IF "[tool.poetry]" \in m.markers THEN "poetry"
         ELSE IF "[tool.hatch" \in m.markers THEN "hatch"
         ELSE "pip"
    ELSE "pip"

\* the words before the check name in f"pixi run {cmd}", f"poetry run
\* {cmd}", f"hatch run {cmd}" and f"python -m {cmd}"
ManagerPrefix(name) ==
    CASE name = "pixi" -> <<"pixi", "run">>
      [] name = "poetry" -> <<"poetry", "run">>
      [] name = "hatch" -> <<"hatch", "run">>
      [] OTHER -> <<"python", "-m">>

\* _get_tier_commands
GetTierCommands(t, name) ==
    [i \in 1..Len(TierChecks(t)) |-> ManagerPrefix(name) \o <<TierChecks(t)[i]>>]

\* cmd.split()[-1]
CheckName(cmd) == cmd[Len(cmd)]

\* manager = self.detect_package_manager(project_dir)
DetectManager ==
    /\ mpc = "entry"
    /\ manager' = DetectPackageManager(manifest)
    /\ mpc' = "detected"
    /\ UNCHANGED <<manifest, commands, executed_checks, noncommands>>

\* commands = self._get_tier_commands(tier, manager)
ResolveCommands ==
    /\ mpc = "detected"
    /\ commands' = GetTierCommands(tier, manager)
    /\ mpc' = "resolved"
    /\ UNCHANGED <<manifest, manager, executed_checks, noncommands>>

\* result.executed_checks = [cmd.split()[-1] for cmd in commands]
NameChecks ==
    /\ mpc = "resolved"
    /\ executed_checks' = [i \in 1..Len(commands) |-> CheckName(commands[i])]
    /\ mpc' = "done"
    /\ UNCHANGED <<manifest, manager, commands, noncommands>>

NextCommands ==
    \/ DetectManager
    \/ ResolveCommands
    \/ NameChecks

SpecCommands == InitCommands /\ [][NextCommands]_vars

(***************************************************************************)
(* SpecConfig: up to MaxCalls execute_tier calls in a row on one           *)
(* QualityGatesAction, each with any config_overrides and any timeout      *)
(* argument (quality_gates.py, lines 428-461).  Each call is one step; how *)
(* its commands run is left out.  QualityResult(config=self.config) stores *)
(* a reference: the config of every result is the object self.config.      *)
(***************************************************************************)
\* the keys of config_overrides["timeouts"] and the values given to them
OverrideKeys == {"test", "lint"}

OverrideValues == {30, 45}

\* config_overrides, held as the set of the (key, value) items of its
\* "timeouts" entry: the empty set is None, or a dictionary without items
Overrides ==
    {ov \in SUBSET (OverrideKeys \X OverrideValues) :
        \A a \in ov : \A b \in ov : a[1] = b[1] => a = b}

\* the timeout argument, held as a set: empty for None, else the seconds
TimeoutArgs == {{}, {10}}

\* self.config.timeouts.update(config_overrides["timeouts"])
Updated(timeouts, ov) ==
    [k \in DOMAIN timeouts |->
        IF \E e \in ov : e[1] = k THEN (CHOOSE e \in ov : e[1] = k)[2]
        ELSE timeouts[k]]

\* `if timeout is None: timeout = self.config.timeouts.get("test", 120)`
EffectiveTimeout(t, timeouts) ==
    IF t = {} THEN timeouts["test"] ELSE CHOOSE n \in t : TRUE

\* result.config of the i-th result returned: the object self.config
ResultConfig(i) == config

\* one execute_tier(config_overrides=ov, timeout=t) that is no dry run
ExecuteTierWith(ov, t) ==
    /\ Len(results) < MaxCalls
    /\ config' = Updated(config, ov)
    /\ results' = Append(results,
                     [config_overrides |-> ov,
                      timeout |-> t,
                      timeout_seconds |-> EffectiveTimeout(t, Updated(config, ov)),
                      config_at_return |-> Updated(config, ov)])
    /\ UNCHANGED nonconfig

InitConfig == QGIdle /\ CommandsIdle /\ ChangeIdle /\ MigratorIdle

NextConfig == \E ov \in Overrides : \E t \in TimeoutArgs : ExecuteTierWith(ov, t)

SpecConfig == InitConfig /\ [][NextConfig]_vars

(***************************************************************************)
(* ProjectMigrator (framework/migration/migrator.py): migrate() followed   *)
(* by rollback() on one project directory.  A directory is a function from *)
(* the paths of MigFiles to what is stored there: "absent", "original"     *)
(* (what the project held before migrate) or "migrated" (what a step of    *)
(* the migration wrote).  A directory exists when a file below it does.    *)
(***************************************************************************)
\* the entry of the project directory a path lies in or is
Item(f) ==
    IF f \in {".github/workflows/ci.yml", ".github/workflows/release.yml"}
        THEN ".github"
        ELSE f

\* (project_path / item).exists()
Exists(t, item) == \E f \in MigFiles : Item(f) = item /\ t[f] # "absent"

\* _create_backup: backup_files and backup_dirs, as far as they are in MigFiles
BackupFiles == {"pyproject.toml", ".pre-commit-config.yaml"}

BackupDirs == {".github"}

\* rollback: generated_files, as far as they are in MigFiles
GeneratedFiles == {"pixi.lock"}

\* _create_backup: every listed file and directory that exists is copied
CreateBackup(t) ==
    [f \in MigFiles |->
        IF Item(f) \in BackupFiles \cup BackupDirs /\ Exists(t, Item(f))
            THEN t[f]
            ELSE "absent"]

\* backup_dir.iterdir()
BackedUp(b) == {Item(f) : f \in {g \in MigFiles : b[g] # "absent"}}

\* rollback, the loop over the backup: a file is copied over its target, a
\* directory replaces its target (rmtree, then copytree)
Restored(t, b, items) ==
    [f \in MigFiles |-> IF Item(f) \in items THEN b[f] ELSE t[f]]

\* rollback, the loop over generated_files
Cleaned(t) ==
    [f \in MigFiles |-> IF f \in GeneratedFiles THEN "absent" ELSE t[f]]

\* create_migration_plan: the steps _execute_migration_step executes by
\* writing a file, in the order of the plan ("Generate CI framework
\* workflows" and "Configure quality gates ..." both call
\* _migrate_github_workflows); the other steps of the plan return or log
MigrationSteps(a) ==
    (IF a.manager # "pixi" THEN <<"migrate_to_pixi">> ELSE <<>>)
    \o (IF ~a.ruff_config THEN <<"configure_ruff">> ELSE <<>>)
    \o (IF ~a.pytest_config THEN <<"configure_pytest">> ELSE <<>>)
    \o (IF ~a.precommit_hooks THEN <<"setup_precommit_hooks">> ELSE <<>>)
    \o <<"generate_workflows", "configure_quality_gates">>

\* the file a step writes
Written(step) ==
    CASE step \in {"migrate_to_pixi", "configure_ruff", "configure_pytest"}
            -> "pyproject.toml"
      [] step = "setup_precommit_hooks" -> ".pre-commit-config.yaml"
      [] step \in {"generate_workflows", "configure_quality_gates"}
            -> ".github/workflows/ci.yml"

\* _execute_migration_step
Executed(step, t) == [t EXCEPT ![Written(step)] = "migrated"]

\* what ProjectAnalyzer finds in a project directory: pixi is the manager
\* and the ruff and pytest sections are found only in a pyproject.toml,
\* hooks only in a .pre-commit-config.yaml
Analyses(t) ==
    {a \in [manager : {"pixi", "pip"}, ruff_config : BOOLEAN,
            pytest_config : BOOLEAN, precommit_hooks : BOOLEAN] :
        /\ (a.manager = "pixi" \/ a.ruff_config \/ a.pytest_config)
              => t["pyproject.toml"] # "absent"
        /\ a.precommit_hooks => t[".pre-commit-config.yaml"] # "absent"}

MigratorInit ==
    /\ tree \in [MigFiles -> {"absent", "original"}]
    /\ original_tree = tree
    /\ backup_tree = [f \in MigFiles |-> "absent"]
    /\ backup_dir = "none"
    /\ project_analysis \in Analyses(tree)
    /\ migrate_args \in [dry_run : BOOLEAN, backup : BOOLEAN]
    /\ todo = <<>>
    /\ migration_status = "in_progress"
    /\ rollback_result = "none"
    /\ ppc = "migrate"

InitMigrate == QGIdle /\ CommandsIdle /\ ChangeIdle /\ MigratorInit

\* migrate, up to the loop over the steps
Migrate ==
    /\ ppc = "migrate"
    /\ IF migrate_args.backup /\ ~migrate_args.dry_run
          THEN /\ backup_tree' = CreateBackup(tree)
               /\ backup_dir' = "backup"
          ELSE UNCHANGED <<backup_tree, backup_dir>>
    /\ todo' = MigrationSteps(project_analysis)
    /\ ppc' = "steps"
    /\ UNCHANGED <<tree, original_tree, project_analysis, migrate_args,
                   migration_status, rollback_result, nonmigrator>>

\* one turn of the loop over the steps
ExecuteMigrationStep ==
    /\ ppc = "steps"
    /\ todo # <<>>
    /\ tree' = IF migrate_args.dry_run THEN tree ELSE Executed(Head(todo), tree)
    /\ todo' = Tail(todo)
    /\ UNCHANGED <<original_tree, backup_tree, backup_dir, project_analysis,
                   migrate_args, migration_status, rollback_result, ppc,
                   nonmigrator>>

\* one turn of the loop over the steps in which the step raises before it
\* writes: the loop is left and the status is FAILED
FailMigrationStep ==
    /\ ppc = "steps"
    /\ todo # <<>>
    /\ ~migrate_args.dry_run
    /\ todo' = <<>>
    /\ migration_status' = "failed"
    /\ ppc' = "migrated"
    /\ UNCHANGED <<tree, original_tree, backup_tree, backup_dir,
                   project_analysis, migrate_args, rollback_result,
                   nonmigrator>>

\* migrate, after the last step
MigrateReturn ==
    /\ ppc = "steps"
    /\ todo = <<>>
    /\ migration_status' = "completed"
    /\ ppc' = "migrated"
    /\ UNCHANGED <<tree, original_tree, backup_tree, backup_dir,
                   project_analysis, migrate_args, todo, rollback_result,
                   nonmigrator>>

\* rollback that meets no exception
Rollback ==
    /\ ppc = "migrated"
    /\ IF backup_dir = "none"
          THEN /\ rollback_result' = "false"
               /\ UNCHANGED tree
          ELSE /\ tree' = Cleaned(Restored(tree, backup_tree,
                                           BackedUp(backup_tree)))
               /\ rollback_result' = "true"
    /\ ppc' = "rolledback"
    /\ UNCHANGED <<original_tree, backup_tree, backup_dir, project_analysis,
                   migrate_args, todo, migration_status, nonmigrator>>

\* rollback in which a copy raises after the entries of items were restored
RollbackFails(items) ==
    /\ ppc = "migrated"
    /\ backup_dir # "none"
    /\ items \subseteq BackedUp(backup_tree)
    /\ items # BackedUp(backup_tree)
    /\ tree' = Restored(tree, backup_tree, items)
    /\ rollback_result' = "false"
    /\ ppc' = "rolledback"
    /\ UNCHANGED <<original_tree, backup_tree, backup_dir, project_analysis,
                   migrate_args, todo, migration_status, nonmigrator>>

NextMigrate ==
    \/ Migrate
    \/ ExecuteMigrationStep
    \/ FailMigrationStep
    \/ MigrateReturn
    \/ Rollback
    \/ \E items \in SUBSET (BackupFiles \cup BackupDirs) : RollbackFails(items)

SpecMigrate == InitMigrate /\ [][NextMigrate]_vars

(***************************************************************************)
(* Properties of the result execute_tier returns.                          *)
(***************************************************************************)
Returned == phase = "returned"

Stored == Range(order)

\* the checks whose command was started
Started == {c \in Checks : wpc[c] # "idle"}

\* C1, as claimed: on every exit path of execute_tier, result.success is
\* true if and only if result.failed_checks is empty.
C1_SuccessIffNoFailedChecks ==
    Returned => (result.success <=> result.failed_checks = <<>>)

\* C1, amended: result.success is true if and only if result.failed_checks
\* is empty and the internal-error handler was not taken (failure_reason is
\* not execution_error); success always implies that failed_checks is empty.
C1_SuccessIffNoFailedChecksAndNoError ==
    Returned =>
        (result.success <=>
            (result.failed_checks = <<>> /\ result.failure_reason # "execution_error"))

\* C1, witness: the internal-error path, taken when report generation raises
C1_Witness ==
    /\ Returned
    /\ result.failure_reason = "execution_error"
    /\ result.failed_checks = <<>>
    /\ ~result.success

\* C2, as claimed: whenever an executed check failed with a zero-tolerance
\* signature in its stderr, the result has success=false, failed_fast=true
\* and failure_reason=critical_lint_violations, whatever the other checks did.
C2_CriticalViolationAlwaysReported ==
    (Returned /\ \E c \in Stored : res[c] = "crit") =>
        /\ ~result.success
        /\ result.failed_fast
        /\ result.failure_reason = "critical_lint_violations"

\* C3: in sequential mode the checks are started in tier order, each after
\* the one before it has returned, and no check that comes after a check
\* that failed with a zero-tolerance signature is ever started.
C3_SequentialStopsAtCritical ==
    ~parallel =>
        \A c \in TierSet : \A d \in TierSet :
            Pos(c) < Pos(d) =>
                /\ (d \in Started => wpc[c] = "collected")
                /\ (res[c] = "crit" => d \notin Started)

\* C3, witness: a sequential run whose first check failed with a signature
\* has returned, and the checks after it were not started
C3_Witness ==
    /\ Returned
    /\ ~parallel
    /\ res["test"] = "crit"
    /\ Started = {"test"}

\* C4, as claimed: after a sequential run aborted by a zero-tolerance
\* violation, result.executed_checks holds exactly the checks that were
\* started.
C4_ExecutedChecksAreTheStartedOnes ==
    (Returned /\ ~parallel /\ result.failed_fast) =>
        Range(result.executed_checks) = Started

\* C5, as claimed: if any command of a non-dry-run call times out, the
\* result has success=false and failure_reason=timeout.
C5_TimeoutAlwaysReported ==
    (Returned /\ \E c \in Stored : res[c] = "timeout") =>
        /\ ~result.success
        /\ result.failure_reason = "timeout"

\* C5, amended: if the result of any command reports a timeout, the result
\* of the tier has success=false and failure_reason timeout or
\* critical_lint_violations, and it is timeout provided no check of the run
\* failed with a zero-tolerance signature.
C5_TimeoutReportedWhenNoCritical ==
    (Returned /\ \E c \in Stored : res[c] = "timeout") =>
        /\ ~result.success
        /\ result.failure_reason \in {"timeout", "critical_lint_violations"}
        /\ (\A c \in Stored : res[c] # "crit") => result.failure_reason = "timeout"

\* C5, witness: a parallel run in which one command timed out, one failed
\* without a signature and one passed
C5_Witness ==
    /\ Returned
    /\ parallel
    /\ \E c \in Stored : res[c] = "timeout"
    /\ \E c \in Stored : res[c] = "fail"
    /\ \E c \in Stored : res[c] = "ok"
    /\ \A c \in Stored : res[c] # "crit"
    /\ result.failure_reason = "timeout"

\* C6, as claimed: partial_success is true if and only if successful_checks
\* and failed_checks are both non-empty and the run was aborted neither by a
\* zero-tolerance fail-fast nor by a timeout.
C6_PartialIffMixedAndNotAborted ==
    Returned =>
        (result.partial_success <=>
            /\ result.successful_checks # <<>>
            /\ result.failed_checks # <<>>
            /\ ~result.failed_fast
            /\ result.failure_reason # "timeout")

\* C6, amended: partial_success is true if and only if successful_checks and
\* failed_checks are both non-empty, whether or not the run was aborted.
C6_PartialIffMixed ==
    Returned =>
        (result.partial_success <=>
            (result.successful_checks # <<>> /\ result.failed_checks # <<>>))

\* C6, witness: a fail-fast result with successful and failed checks
C6_Witness ==
    /\ Returned
    /\ result.failed_fast
    /\ result.successful_checks # <<>>
    /\ result.partial_success

\* C17, as claimed: if the child process of a check cannot be spawned,
\* execute_tier returns a result with success=false and
\* failure_reason=execution_error.
C17_SpawnFailureIsExecutionError ==
    (Returned /\ unspawned # {}) =>
        /\ ~result.success
        /\ result.failure_reason = "execution_error"

\* C18: a call with dry_run=True, of any tier, starts no command, stores no
\* command result, leaves the registry as it was, writes no report and
\* returns success=true.
C18_DryRunExecutesNothing ==
    dry_run =>
        /\ Started = {}
        /\ order = <<>>
        /\ registry = <<>>
        /\ reports = <<>>
        /\ Returned => result.success

\* C18, witness: a dry run of the full tier has returned
C18_Witness ==
    /\ Returned
    /\ dry_run
    /\ tier = "full"
    /\ result.success
    /\ reports = <<>>

\* the call is a real execution of the full tier in which every check
\* succeeded
FullTierPassed ==
    /\ ~dry_run
    /\ tier = "full"
    /\ \A c \in TierSet : res[c] = "ok"

\* C19, as claimed: the three report files are written if and only if the
\* call is a non-dry-run execution of the full tier in which every check
\* succeeded; no other run, and no failed run, writes any of them.
C19_ReportsIffFullTierPassed ==
    Returned =>
        /\ reports = ReportFiles <=> FullTierPassed
        /\ ~FullTierPassed => reports = <<>>
        /\ ~result.success => reports = <<>>

\* C19, amended: a report file is written only by a non-dry-run execution
\* of the full tier in which every check succeeded; such an execution
\* writes all three files and returns success=true, unless writing them
\* raises, and then it returns execution_error with fewer than three files
\* written.
C19_ReportsOnlyIfFullTierPassed ==
    Returned =>
        /\ reports # <<>> => FullTierPassed
        /\ FullTierPassed =>
              IF result.success THEN reports = ReportFiles
              ELSE /\ result.failure_reason = "execution_error"
                   /\ Len(reports) < Len(ReportFiles)

\* C19, witness: a full-tier run in which every check succeeded has written
\* the three files
C19_Witness ==
    /\ Returned
    /\ FullTierPassed
    /\ result.success
    /\ reports = ReportFiles

\* C22, as claimed: in parallel mode the result does not depend on the
\* order in which the checks complete: whichever order the results of the
\* run had been stored in, success, failure_reason, failed_fast,
\* partial_success and the sets of successful and of failed checks would be
\* those of the result; every check that completed is in one of the two sets.
C22_ParallelResultIsOrderIndependent ==
    (Returned /\ parallel /\ ~dry_run /\ result.failure_reason # "execution_error") =>
        /\ Stored = Range(result.successful_checks) \cup Range(result.failed_checks)
        /\ \A ord \in Orders(Stored) :
              LET a == Aggregated(NewResult(tier), ord, res)
              IN  /\ a.success = result.success
                  /\ a.failure_reason = result.failure_reason
                  /\ a.failed_fast = result.failed_fast
                  /\ a.partial_success = result.partial_success
                  /\ Range(a.successful_checks) = Range(result.successful_checks)
                  /\ Range(a.failed_checks) = Range(result.failed_checks)

\* C23, as claimed: in sequential mode, once a command has reported a
\* timeout no command that comes later in the list of the tier is started.
C23_SequentialStopsAtTimeout ==
    ~parallel =>
        \A c \in TierSet : \A d \in TierSet :
            (Pos(c) < Pos(d) /\ res[c] = "timeout") => d \notin Started

\* C28, as claimed: after any row of calls on one QualityGatesAction, a
\* call made without config_overrides and without a timeout has run with
\* the default timeout of 120 seconds, and the config of every result
\* returned so far is as it was when the result was returned.
C28_OverridesAreScopedToTheCall ==
    \A i \in 1..Len(results) :
        /\ (results[i].config_overrides = {} /\ results[i].timeout = {})
              => results[i].timeout_seconds = 120
        /\ ResultConfig(i) = results[i].config_at_return

(***************************************************************************)
(* Properties of the live-process registry and of cleanup().               *)
(***************************************************************************)
\* C7: a process is out of the registry once the _execute_command that
\* registered it has returned, whichever way it returned, and the registry
\* holds no process of the call once execute_tier has returned.
C7_RegistryHoldsNoFinishedProcess ==
    /\ \A c \in Checks : Finished(c) => c \notin Range(registry)
    /\ Returned => registry = <<>>

\* C7, witness: a parallel run has returned in which one command timed out,
\* one raised and one exited normally
C7_Witness ==
    /\ Returned
    /\ parallel
    /\ \E c \in TierSet : res[c] = "timeout"
    /\ \E c \in TierSet : res[c] = "error"
    /\ \E c \in TierSet : res[c] = "ok"
    /\ registry = <<>>

\* C8, as claimed: cleanup() never raises.
C8_CleanupNeverRaises == cpc # "raised"

\* C9, as claimed: when cleanup() returns the registry is empty, and a
\* cleanup() called again right then sends no signal and changes nothing.
C9_CleanupLeavesRegistryEmpty ==
    [][/\ (cpc # "done" /\ cpc' = "done") => registry' = <<>>
       /\ (cpc = "done" /\ registry = <<>> /\ ccalls' = ccalls + 1) =>
              (cpc' = "done" /\ signalled' = {} /\ registry' = registry)]_vars

\* C9, amended: when cleanup() has returned, every process of the copy it
\* took is out of the registry and every one of them that is still running
\* has been signalled (the registry then holds only processes registered
\* after the copy was taken); a cleanup() that finds the registry empty
\* sends no signal and leaves the registry empty.
C9_CleanupClearsItsCopy ==
    [][/\ cpc' = "done" =>
              \A i \in 1..Len(csnap') :
                  /\ csnap'[i] \notin Range(registry')
                  /\ wpc'[csnap'[i]] = "running" => csnap'[i] \in signalled'
       /\ (ccalls' = ccalls + 1 /\ registry = <<>>) =>
              (cpc' = "done" /\ signalled' = {} /\ registry' = <<>>)]_vars

\* C9, witness: a second cleanup() has returned on an empty registry while a
\* process the first one signalled and deregistered is still running
C9_Witness ==
    /\ cpc = "done"
    /\ ccalls = 2
    /\ csnap = <<>>
    /\ registry = <<>>
    /\ \E c \in TierSet : wpc[c] = "running"

\* the threads that have tested `process in self._running_processes` and
\* not yet run the removal the test guards: the workers (named by their
\* check) and the thread inside cleanup()
InCheckAndUpdate ==
    {c \in Checks : wpc[c] = "checked"} \cup (IF cpc = "remove" THEN {"cleanup"} ELSE {})

\* C24, as claimed: no two threads, two workers or a worker and a concurrent
\* cleanup(), are ever between a membership test of the registry and the
\* removal that follows it at the same time.
C24_RegistryUpdatesAreExclusive == Cardinality(InCheckAndUpdate) <= 1

(***************************************************************************)
(* Properties of get_affected_modules.                                     *)
(***************************************************************************)
\* C10: the result of get_affected_modules holds every changed file that is
\* a node of the graph and is closed under imported_by: no node in it has
\* an imported_by member outside it.
C10_AffectedClosedUnderImportedBy ==
    gpc = "done" =>
        /\ \A f \in changed : f \in DOMAIN graph => f \in affected
        /\ \A m \in affected : m \in DOMAIN graph => graph[m] \subseteq affected

\* C10, witness: one changed node, and in the result a module that imports
\* it only through another module
C10_Witness ==
    /\ gpc = "done"
    /\ Cardinality(changed) = 1
    /\ \E a \in changed \cap DOMAIN graph :
          \E m \in graph[a] \ changed :
             \E n \in graph[m] \ (changed \cup {m}) :
                /\ n \notin graph[a]
                /\ {m, n} \subseteq affected

\* a cycle of three imports: three nodes, each imported by exactly one of the
\* other two, no two by the same one
ThreeCycle(g) ==
    /\ Cardinality(DOMAIN g) = 3
    /\ \A n \in DOMAIN g : Cardinality(g[n]) = 1 /\ n \notin g[n]
    /\ UNION {g[n] : n \in DOMAIN g} = DOMAIN g

\* C11: on every graph, with or without import cycles, get_affected_modules
\* returns, having expanded no node twice and no more nodes than the graph
\* has; on a cycle of three imports with one node changed it returns
\* exactly the three nodes.
C11_TerminatesVisitingEachNodeOnce ==
    /\ <>(gpc = "done")
    /\ [](/\ Cardinality(Range(processed)) = Len(processed)
          /\ Len(processed) <= Cardinality(DOMAIN graph)
          /\ (gpc = "done" /\ ThreeCycle(graph)
                /\ Cardinality(changed \cap DOMAIN graph) = 1)
               => affected = DOMAIN graph)

\* C11, witness: the call has returned the three nodes of a cycle of three
\* imports of which one was changed
C11_Witness ==
    /\ gpc = "done"
    /\ ThreeCycle(graph)
    /\ Cardinality(changed \cap DOMAIN graph) = 1
    /\ Len(processed) = 3
    /\ affected = DOMAIN graph

(***************************************************************************)
(* Properties of get_affected_tests.                                       *)
(***************************************************************************)
\* the test nodes of the graph of which an import names an affected module
TestsImportingAffected ==
    {t \in DOMAIN nodes :
        /\ nodes[t].is_test
        /\ \E i \in nodes[t].imports :
              \E m \in affected : ImportMatchesFile(i, m)}

\* C12, as claimed: every test file of the graph that directly imports a
\* module of get_affected_modules(changed) is in get_affected_tests(changed),
\* whatever its name.
C12_ImportingTestsAreAffected ==
    apc = "done" => TestsImportingAffected \subseteq affected_tests

(***************************************************************************)
(* Properties of build_dependency_graph.                                   *)
(***************************************************************************)
\* the .py files of the last call's source_files that exist
LastBuilt == {f \in source_files \cap DOMAIN project : IsPython(f)}

\* C25, as claimed: after any sequence of build_dependency_graph calls on
\* one analyzer, the nodes of the graph are exactly the existing .py files
\* passed to the most recent call, and every imported_by and test_files
\* entry names a node of that build.
C25_GraphHoldsOnlyTheLastBuild ==
    apc = "modules" =>
        /\ DOMAIN nodes = LastBuilt
        /\ DOMAIN graph = LastBuilt
        /\ \A f \in DOMAIN graph : graph[f] \subseteq LastBuilt
        /\ \A f \in DOMAIN nodes : nodes[f].test_files \subseteq LastBuilt

\* the importers a file has among the files of S
ImportersIn(S, f) ==
    {g \in S : \E i \in project[g] : ImportMatchesFile(i, f)}

\* the test files of S associated with the file, which is no test file
TestsIn(S, f) ==
    {t \in S : IsTestFile(t) /\ (f \in project[t] \/ TestMatchesModule(t, f))}

\* C26: the two passes over the nodes are run only when the analysis of
\* every submitted file has been yielded and every file that exists has its
\* node; the graph the call returns is then the same for every order in
\* which the analyses complete: its nodes are the existing .py files of
\* source_files, each with the imports of its file, with the files of the
\* graph that import it as imported_by and with its test files.
C26_PassesStartAfterAllAnalyses ==
    /\ [][(apc = "analyzing" /\ apc' = "modules") =>
              /\ Range(completed) = Submitted(source_files)
              /\ DOMAIN nodes = LastBuilt]_vars
    /\ [](apc = "modules" =>
              /\ DOMAIN nodes = LastBuilt
              /\ DOMAIN graph = LastBuilt
              /\ \A f \in LastBuilt :
                    /\ nodes[f].imports = project[f]
                    /\ nodes[f].is_test = IsTestFile(f)
                    /\ graph[f] = ImportersIn(LastBuilt, f)
                    /\ nodes[f].test_files =
                          IF IsTestFile(f) THEN {} ELSE TestsIn(LastBuilt, f))

\* C26, witness: the graph of four files is built whose analyses completed
\* test file first; it has an import edge and a test association
C26_Witness ==
    /\ apc = "modules"
    /\ Len(completed) >= 4
    /\ IsTestFile(completed[1])
    /\ ~IsTestFile(completed[Len(completed)])
    /\ \E f \in DOMAIN graph : graph[f] # {}
    /\ \E f \in DOMAIN nodes : nodes[f].test_files # {}

(***************************************************************************)
(* Properties of classify_files.                                           *)
(***************************************************************************)
\* the number of times f occurs in the list s
Count(s, f) == Cardinality({i \in 1..Len(s) : s[i] = f})

\* the number of times f occurs in the lists of all categories together
Classified(f) ==
    Cardinality({e \in Categories \X (1..Len(files)) :
                   /\ e[2] <= Len(classifications[e[1]])
                   /\ classifications[e[1]][e[2]] = f})

\* the first category with a matching pattern, else the one of the extension
CategoryOf(f) == IF FirstMatch(f) # "none" THEN FirstMatch(f) ELSE InferFromExtension(f)

\* C16: when classify_files returns, every occurrence of a file in the input
\* is in the list of exactly one category, the first one in the configured
\* order with a matching pattern or else the one inferred from the
\* extension, or it is in no list and was logged with a warning.
C16_EachFileInOneCategoryOrWarned ==
    kpc = "done" =>
        \A f \in ClassFiles :
            /\ Count(files, f) = Classified(f) + Count(warned, f)
            /\ \A c \in Categories :
                  Count(classifications[c], f) > 0 => c = CategoryOf(f)
            /\ Count(warned, f) > 0 => CategoryOf(f) = "none"

\* C16, witness: a list with a file that patterns of two categories match,
\* a file classified by its extension and a file of no category
C16_Witness ==
    /\ kpc = "done"
    /\ \E f \in Range(files) :
          Cardinality(MatchingCategories(f)) = 2 /\ Classified(f) = 1
    /\ \E f \in Range(files) :
          MatchingCategories(f) = {} /\ Classified(f) = 1
    /\ warned # <<>>

(***************************************************************************)
(* Properties of calculate_optimization.                                   *)
(***************************************************************************)
\* the four skip flags of the reference decision table
TableFlags ==
    LET has_source == classifications["source"] # <<>>
        has_tests == classifications["tests"] # <<>>
        has_docs == classifications["docs"] # <<>>
        has_config == classifications["config"] # <<>>
        has_dependencies == classifications["dependencies"] # <<>>
        has_build == classifications["build"] # <<>>
        docs_only == has_docs /\ ~(has_source \/ has_tests \/ has_dependencies \/ has_build)
    IN  [skip_tests |-> ~(has_source \/ has_tests \/ has_dependencies)
                        /\ enable_test_optimization,
         skip_security |-> (docs_only \/ (has_config /\ ~has_dependencies /\ ~has_source))
                           /\ enable_job_skipping,
         skip_docs |-> ~has_docs /\ enable_job_skipping,
         skip_lint |-> docs_only /\ enable_job_skipping]

Flags == {"skip_tests", "skip_security", "skip_docs", "skip_lint"}

\* C14: the four skip flags calculate_optimization returns are those of the
\* reference decision table when at least one file is classified, and all
\* false when none is.
C14_SkipFlagsFollowDecisionTable ==
    opc = "done" =>
        \A k \in Flags :
            optimization[k] =
                IF \E c \in Categories : classifications[c] # <<>>
                THEN TableFlags[k] ELSE FALSE

\* C14, witness: with a docs and a build change and both flags enabled,
\* nothing is skipped; the call has returned
C14_Witness ==
    /\ opc = "done"
    /\ enable_test_optimization /\ enable_job_skipping
    /\ \A c \in Categories : classifications[c] # <<>> <=> c \in {"docs", "build"}
    /\ ~optimization.skip_security
    /\ ~optimization.skip_lint
    /\ optimization.skip_tests

\* C15: the optimization_score of every result is between 0 and 100 and is
\* 25 times the number of skip flags that are true in the result.
C15_ScoreIsQuarterPerSkippedJob ==
    opc = "done" =>
        /\ optimization.optimization_score \in 0..100
        /\ optimization.optimization_score =
              25 * Cardinality({k \in Flags : optimization[k]})

\* C15, witness: a change of documentation only scores 75
C15_Witness ==
    /\ opc = "done"
    /\ \A c \in Categories : classifications[c] # <<>> <=> c = "docs"
    /\ optimization.skip_tests /\ optimization.skip_security
    /\ optimization.skip_lint /\ ~optimization.skip_docs
    /\ optimization.optimization_score = 75

\* C30: skip_docs and skip_lint are never both true in a result of
\* calculate_optimization, so at most three of the four skip flags are true
\* and the optimization_score is at most 75.
C30_DocsAndLintAreNeverBothSkipped ==
    opc = "done" =>
        /\ ~(optimization.skip_docs /\ optimization.skip_lint)
        /\ Cardinality({k \in Flags : optimization[k]}) <= 3
        /\ optimization.optimization_score <= 75

\* C30, witness: a change of configuration only skips the tests, the
\* security scan and the documentation, not the lint, and scores 75
C30_Witness ==
    /\ opc = "done"
    /\ \A c \in Categories : classifications[c] # <<>> <=> c = "config"
    /\ optimization.skip_tests /\ optimization.skip_security
    /\ optimization.skip_docs /\ ~optimization.skip_lint
    /\ optimization.optimization_score = 75

\* the dependency manifests among the paths of the model
DependencyManifests ==
    {"requirements.txt", "pyproject.toml", "package.json", "Pipfile", "poetry.lock"}

\* C27, as claimed: with the default patterns, when the list of changed
\* files holds a dependency manifest, the decision made from its
\* classification has neither skip_tests nor skip_security.
C27_ManifestChangeKeepsTestsAndSecurity ==
    (opc = "done" /\ Range(files) \cap DependencyManifests # {}) =>
        /\ ~optimization.skip_tests
        /\ ~optimization.skip_security

(***************************************************************************)
(* Properties of ChangeDetectionAction.execute.                            *)
(***************************************************************************)
\* C13, as claimed: when the only changed file src/a.py is imported by the
\* unchanged module src/b.py and by nothing else, and tests/test_b.py
\* exists, a successful analysis at the standard level finds the affected
\* modules {src/a.py, src/b.py} and the affected tests {tests/test_b.py}.
C13_ExecuteFindsTransitiveImpact ==
    (/\ xpc = "done"
     /\ change_result.success
     /\ detection_level = "standard"
     /\ changed = {"src/a.py"}
     /\ \A f \in DOMAIN project :
           project[f] = IF f = "src/b.py" THEN {"src.a"} ELSE {})
    => /\ affected = {"src/a.py", "src/b.py"}
       /\ change_result.dependency_impact = 2
       /\ change_result.affected_tests = {"tests/test_b.py"}

(***************************************************************************)
(* Properties of ProjectMigrator.migrate and ProjectMigrator.rollback.     *)
(***************************************************************************)
\* C29: after migrate(dry_run=False, backup=True) and a rollback() that
\* returned True, the project directory holds what it held before migrate.
C29_RollbackRestoresTheOriginalState ==
    (/\ rollback_result = "true"
     /\ ~migrate_args.dry_run
     /\ migrate_args.backup)
        => tree = original_tree

(***************************************************************************)
(* Properties of the resolution of the commands of a tier.                 *)
(***************************************************************************)
\* s is an initial part of t
IsPrefix(s, t) == Len(s) <= Len(t) /\ SubSeq(t, 1, Len(s)) = s

\* C20: essential resolves to test, lint, typecheck, extended to these
\* followed by security-scan, full to those followed by check-all; the
\* check list and the command list of each tier are initial parts of those
\* of the next tier; each check has exactly one command, in its place, made
\* of the prefix of the detected manager and the check name.
C20_TiersAreCumulative ==
    (mpc = "done" /\ tier \in Tiers) =>
        /\ executed_checks =
              CASE tier = "essential" -> <<"test", "lint", "typecheck">>
                [] tier = "extended" -> <<"test", "lint", "typecheck", "security-scan">>
                [] tier = "full" ->
                     <<"test", "lint", "typecheck", "security-scan", "check-all">>
        /\ Len(commands) = Len(executed_checks)
        /\ \A i \in 1..Len(commands) :
              commands[i] =
                  (CASE manager = "pixi" -> <<"pixi", "run">>
                     [] manager = "poetry" -> <<"poetry", "run">>
                     [] manager = "hatch" -> <<"hatch", "run">>
                     [] manager = "pip" -> <<"python", "-m">>)
                  \o <<executed_checks[i]>>
        /\ IsPrefix(GetTierCommands("essential", manager),
                    GetTierCommands("extended", manager))
        /\ IsPrefix(GetTierCommands("extended", manager),
                    GetTierCommands("full", manager))
        /\ IsPrefix(commands, GetTierCommands("full", manager))

\* the package managers, the one of highest priority first
ManagerPriority == <<"pixi", "poetry", "hatch", "pip">>

\* the managers the manifest speaks for: those whose marker is in the text
\* of a pyproject.toml that can be read, and pip in any case
Candidates ==
    {"pip"} \cup
    (IF manifest.exists /\ manifest.readable
     THEN {n \in {"pixi", "poetry", "hatch"} :
             \E mk \in manifest.markers :
                \/ n = "pixi" /\ mk = "[tool.pixi"
                \/ n = "poetry" /\ mk = "[tool.poetry]"
                \/ n = "hatch" /\ mk = "[tool.hatch"}
     ELSE {})

\* C21: detect_package_manager returns the manager of highest priority, in
\* the order pixi, poetry, hatch, pip, among those whose marker is in the
\* content of pyproject.toml; it returns pip when the manifest is missing,
\* cannot be read or holds no marker it knows.
C21_HighestPriorityManagerIsDetected ==
    mpc # "entry" =>
        /\ manager \in Candidates
        /\ \A i \in 1..Len(ManagerPriority) : \A j \in 1..Len(ManagerPriority) :
              (ManagerPriority[i] = manager /\ ManagerPriority[j] \in Candidates)
                  => i <= j
        /\ (~manifest.exists \/ ~manifest.readable
              \/ manifest.markers \cap Markers = {}) => manager = "pip"

\* C21, witness: pixi is detected in a manifest that holds the markers of
\* the three tools
C21_Witness ==
    /\ mpc = "detected"
    /\ manifest.readable
    /\ Markers \subseteq manifest.markers
    /\ manager = "pixi"

\* C20, witness: the extended tier is resolved for a project whose manifest
\* holds the markers of poetry and of hatch
C20_Witness ==
    /\ mpc = "done"
    /\ tier = "extended"
    /\ manifest.markers = {"[tool.poetry]", "[tool.hatch"}
    /\ commands[4] = <<"poetry", "run", "security-scan">>

====
